---------------------------- MODULE Spec2Model ----------------------------
(***************************************************************************)
(* Model of drivers/hv/ring_buffer.c: the Hyper-V VMBus ring buffer, a     *)
(* circular byte region shared by one producer side and one consumer side. *)
(*                                                                         *)
(* The shared control block (read_index, write_index, interrupt_mask,      *)
(* pending_send_sz, feature_bits, buffer[]) is the state both sides see.   *)
(* hv_ringbuffer_write and hv_ringbuffer_read are modelled step by step:   *)
(* every access to the shared block that the memory barriers of the code   *)
(* order is a step of its own, so TLC explores the interleavings of the    *)
(* two sides.  The data region is modelled byte by byte; descriptors and   *)
(* the trailing back-link word are stored in it little-endian, as the      *)
(* memcpy of the C structures stores them.                                 *)
(***************************************************************************)
EXTENDS Integers, Sequences, FiniteSets, TLC

(*------------------------------ bounds ----------------------------------*)

\* Size in bytes of the circular data region of the modelled ring.
DataSize == 56

\* The producer side calls hv_ringbuffer_write at most this many times.
MaxWrites == 3

(*------------------------- program constants ----------------------------*)

\* sizeof(struct vmpacket_descriptor): type, offset8, len8, flags (u16 each)
\* and trans_id (u64).
DescSize == 16

\* sizeof(u64): the trailing word that holds the previous indices.
LinkSize == 8

EAGAIN == 11
ENOBUFS == 105
EINVAL == 22

\* feature_bits.value as set by hv_ringbuffer_init.
FeatPendingSendSz == 1

\* PAGE_SIZE, which sizeof(struct hv_ring_buffer) has to equal.
PageSize == 4096

(*--------------------------- byte encoding ------------------------------*)

\* The k bytes of the unsigned integer n as memcpy stores them (little-endian).
RECURSIVE ToBytes(_, _)
ToBytes(n, k) == IF k = 0 THEN <<>> ELSE <<n % 256>> \o ToBytes(n \div 256, k - 1)

\* The unsigned integer held by the bytes b[from .. from+k-1] (little-endian).
RECURSIVE FromBytes(_, _, _)
FromBytes(b, from, k) ==
    IF k = 0 THEN 0 ELSE b[from] + 256 * FromBytes(b, from + 1, k - 1)

\* A u64 whose low 32 bits are zero, as bytes: only the high word is kept as
\* a number, since the model's integers are narrower than 64 bits.
HighWordBytes(hi) == ToBytes(0, 4) \o ToBytes(hi, 4)

\* struct vmpacket_descriptor as bytes.
DescBytes(type, offset8, len8, flags, trans_id) ==
    ToBytes(type, 2) \o ToBytes(offset8, 2) \o ToBytes(len8, 2)
        \o ToBytes(flags, 2) \o ToBytes(trans_id, 8)

\* The fields hv_ringbuffer_read uses of a descriptor copied out of the ring.
DescOffset8(d) == FromBytes(d, 3, 2)
DescLen8(d) == FromBytes(d, 5, 2)
\* trans_id is kept as the eight bytes of the u64.
DescTransId(d) == SubSeq(d, 9, 16)

RECURSIVE Flatten(_)
Flatten(kv) == IF kv = <<>> THEN <<>> ELSE Head(kv) \o Flatten(Tail(kv))

(*------------------------------ state -----------------------------------*)

VARIABLES
    read_index,       \* ring_buffer->read_index
    write_index,      \* ring_buffer->write_index
    interrupt_mask,   \* ring_buffer->interrupt_mask
    pending_send_sz,  \* ring_buffer->pending_send_sz
    feature_bits,     \* ring_buffer->feature_bits.value
    buffer,           \* ring_buffer->buffer[0 .. ring_datasize-1]
    ring_lock,        \* ring_info->ring_lock: 0 when free, else the holder
    w,                \* per writer thread: position in and locals of hv_ringbuffer_write
    c,                \* the consumer: position in begin_read/read/end_read and locals
    sig_pending,      \* the producer's caller has signalled, consumer has not woken yet
    inflight,         \* ledger: packets published and not yet consumed, oldest first
    nwrites,          \* number of calls of hv_ringbuffer_write so far
    ring_info         \* ring_info->ring_size, ->ring_datasize and the result of hv_ringbuffer_init

vars == <<read_index, write_index, interrupt_mask, pending_send_sz, feature_bits,
          buffer, ring_lock, w, c, sig_pending, inflight, nwrites, ring_info>>

shared == <<read_index, write_index, interrupt_mask, pending_send_sz, feature_bits,
            buffer, ring_lock>>


(*------------------------ ring geometry helpers -------------------------*)

\* ring_info->ring_datasize, fixed by hv_ringbuffer_init.
ring_datasize == DataSize

\* hv_get_ringbuffer_availbytes (hyperv_vmbus.h): the bytes available to read
\* and to write for the given indices.
hv_get_ringbuffer_availbytes(read_loc, write_loc) ==
    LET rd == (write_loc - read_loc + ring_datasize) % ring_datasize
    IN  [read |-> rd, write |-> ring_datasize - rd]

\* hv_get_next_readlocation_withoffset that leaves the offset out.
hv_get_next_readlocation_nooffset(rd_index, offset) ==
    rd_index % ring_datasize

\* hv_get_next_readlocation_withoffset: read_index + offset, wrapped.
hv_get_next_readlocation_withoffset(rd_index, offset) ==
    (rd_index + offset) % ring_datasize

\* hv_get_ring_bufferindices: (u64)write_index << 32, as its eight bytes.
hv_get_ring_bufferindices(wr_index) == HighWordBytes(wr_index)

\* hv_copyto_ringbuffer returning the offset without "%= ring_buffer_size".
hv_copyto_ringbuffer_nomod(rb, start_write_offset, src) ==
    LET srclen == Len(src)
        ring_buffer_size == ring_datasize
        frag_len == ring_buffer_size - start_write_offset
    IN  [buffer |-> [k \in 0..(ring_buffer_size - 1) |->
                      IF srclen > frag_len /\ k < srclen - frag_len
                      THEN src[frag_len + k + 1]
                      ELSE IF k >= start_write_offset /\ k < start_write_offset + srclen
                           THEN src[k - start_write_offset + 1]
                           ELSE rb[k]],
         next |-> start_write_offset + srclen]

\* hv_copyto_ringbuffer without the second memcpy: what runs past the end of
\* the data region is dropped.
hv_copyto_ringbuffer_nowrap(rb, start_write_offset, src) ==
    LET srclen == Len(src)
        ring_buffer_size == ring_datasize
    IN  [buffer |-> [k \in 0..(ring_buffer_size - 1) |->
                      IF k >= start_write_offset /\ k < start_write_offset + srclen
                      THEN src[k - start_write_offset + 1]
                      ELSE rb[k]],
         next |-> (start_write_offset + srclen) % ring_buffer_size]

\* hv_copyto_ringbuffer: src copied into the ring at start_write_offset, in two
\* fragments when it runs past the end; the new buffer and the returned offset.
hv_copyto_ringbuffer(rb, start_write_offset, src) ==
    LET srclen == Len(src)
        ring_buffer_size == ring_datasize
        frag_len == ring_buffer_size - start_write_offset
        wrapped == [k \in 0..(ring_buffer_size - 1) |->
                      IF k < srclen - frag_len THEN src[frag_len + k + 1]
                      ELSE IF k >= start_write_offset
                           THEN src[k - start_write_offset + 1]
                           ELSE rb[k]]
        straight == [k \in 0..(ring_buffer_size - 1) |->
                      IF k >= start_write_offset /\ k < start_write_offset + srclen
                      THEN src[k - start_write_offset + 1]
                      ELSE rb[k]]
    IN  [buffer |-> IF srclen > ring_buffer_size - start_write_offset
                    THEN wrapped ELSE straight,
         next |-> (start_write_offset + srclen) % ring_buffer_size]

\* hv_copyfrom_ringbuffer whose second fragment starts one byte too far.
hv_copyfrom_ringbuffer_badwrap(rb, destlen, start_read_offset) ==
    LET ring_buffer_size == ring_datasize
        frag_len == ring_buffer_size - start_read_offset
    IN  [dest |-> [k \in 1..destlen |->
                      IF k <= frag_len THEN rb[start_read_offset + k - 1]
                      ELSE rb[k - frag_len]],
         next |-> (start_read_offset + destlen) % ring_buffer_size]

\* hv_copyfrom_ringbuffer: destlen bytes copied out of the ring from
\* start_read_offset, in two fragments when they run past the end; the bytes
\* and the returned offset.
hv_copyfrom_ringbuffer(rb, destlen, start_read_offset) ==
    LET ring_buffer_size == ring_datasize
        frag_len == ring_buffer_size - start_read_offset
        wrapped == [k \in 1..destlen |->
                      IF k <= frag_len THEN rb[start_read_offset + k - 1]
                      ELSE rb[k - frag_len - 1]]
        straight == [k \in 1..destlen |-> rb[start_read_offset + k - 1]]
    IN  [dest |-> IF destlen > ring_buffer_size - start_read_offset
                  THEN wrapped ELSE straight,
         next |-> (start_read_offset + destlen) % ring_buffer_size]

(*-------------------------- signaling policy ----------------------------*)

\* hv_need_to_signal with the comparison of old_write and read_index inverted.
hv_need_to_signal_inverted(old_write, mask, rd_index) ==
    IF mask # 0 THEN FALSE
    ELSE IF old_write # rd_index THEN TRUE
    ELSE FALSE

\* hv_need_to_signal without the comparison: true whenever unmasked.
hv_need_to_signal_unmasked(old_write, mask, rd_index) ==
    IF mask # 0 THEN FALSE ELSE TRUE

\* hv_need_to_signal without the test of interrupt_mask.
hv_need_to_signal_nomask(old_write, mask, rd_index) ==
    IF old_write = rd_index THEN TRUE ELSE FALSE

\* hv_need_to_signal, given the interrupt_mask and the read_index it read.
hv_need_to_signal(old_write, mask, rd_index) ==
    IF mask # 0 THEN FALSE
    ELSE IF old_write = rd_index THEN TRUE
    ELSE FALSE

\* hv_need_to_signal_on_read without the test of prev_write_sz.
hv_need_to_signal_on_read_level(prev_write_sz, write_loc, read_loc, pending_sz) ==
    LET r_size == ring_datasize
        cur_write_sz == IF write_loc >= read_loc
                        THEN r_size - (write_loc - read_loc)
                        ELSE read_loc - write_loc
    IN  IF pending_sz = 0 THEN FALSE
        ELSE IF cur_write_sz >= pending_sz THEN TRUE
        ELSE FALSE

\* hv_need_to_signal_on_read, given the indices and pending_send_sz it read.
hv_need_to_signal_on_read(prev_write_sz, write_loc, read_loc, pending_sz) ==
    LET r_size == ring_datasize
        cur_write_sz == IF write_loc >= read_loc
                        THEN r_size - (write_loc - read_loc)
                        ELSE read_loc - write_loc
    IN  IF pending_sz = 0 THEN FALSE
        ELSE IF prev_write_sz < pending_sz /\ cur_write_sz >= pending_sz THEN TRUE
        ELSE FALSE

(*----------------------------- write path -------------------------------*)

\* The loop that sums kv_list[i].iov_len.
RECURSIVE SumLen(_)
SumLen(kv) == IF kv = <<>> THEN 0 ELSE Len(Head(kv)) + SumLen(Tail(kv))

\* totalbytes_towrite: the segments plus the trailing u64.
TotalBytesToWrite(kv) == SumLen(kv) + LinkSize

\* The ring-full test with "<" for "<=".
RingFull_strict(bytes_avail_towrite, totalbytes_towrite) ==
    bytes_avail_towrite < totalbytes_towrite

\* The ring-full test of hv_ringbuffer_write.
RingFull(bytes_avail_towrite, totalbytes_towrite) ==
    bytes_avail_towrite <= totalbytes_towrite

\* What the caller of hv_ringbuffer_write hands over: the segment list kv, and
\* for the ledger the length hdr of the header the descriptor announces and
\* the transaction id tid it carries.
NoPacket == [kv |-> <<>>, hdr |-> 0, tid |-> 0]

\* An entry of the ledger: the packet and the number of the call that wrote it.
Entry(pkt, seq) == [pkt |-> pkt, seq |-> seq]

\* Writer threads of the producer side.
Writers == {1, 2}

WriterIdle ==
    [pc |-> "idle", pkt |-> NoPacket, seq |-> 0, kv |-> <<>>, lock |-> FALSE, total |-> 0, availw |-> 0,
     next |-> 0, old |-> 0, i |-> 0, mask |-> 0, ret |-> 0, signal |-> FALSE,
     g_availw |-> 0, g_empty |-> FALSE, g_m0 |-> FALSE, g_m1 |-> FALSE,
     g_unread |-> 0]

\* The steps of a write up to and including the signaling predicate.
WriterActive == {"copy", "backlink", "publish", "sigmask", "sigread"}

\* Entry of hv_ringbuffer_write that does not wait for ring_lock.
WEnter_nolock(t, pkt, lock) ==
    /\ w[t].pc = "idle"
    /\ nwrites < MaxWrites
    /\ LET kv == pkt.kv
           total == TotalBytesToWrite(kv)
           avail == hv_get_ringbuffer_availbytes(read_index, write_index)
           base == [WriterIdle EXCEPT !.pkt = pkt, !.seq = nwrites + 1, !.kv = kv, !.lock = lock, !.total = total,
                       !.availw = avail.write,
                       !.g_availw = ring_datasize
                            - ((write_index - read_index + ring_datasize) % ring_datasize),
                       !.g_empty = (read_index = write_index),
                       !.g_m0 = (interrupt_mask = 0),
                       !.g_m1 = (interrupt_mask # 0)]
       IN  IF RingFull(avail.write, total)
           THEN /\ w' = [w EXCEPT ![t] = [base EXCEPT !.pc = "ret", !.ret = -EAGAIN]]
                /\ UNCHANGED ring_lock
           ELSE /\ w' = [w EXCEPT ![t] = [base EXCEPT !.pc = "copy",
                                             !.next = write_index,
                                             !.old = write_index, !.i = 1]]
                /\ ring_lock' = IF lock THEN t ELSE ring_lock
    /\ nwrites' = nwrites + 1
    /\ UNCHANGED <<read_index, write_index, interrupt_mask, pending_send_sz,
                   feature_bits, buffer, c, sig_pending, inflight, ring_info>>

\* Entry of hv_ringbuffer_write: sum the segments, take the lock, read the
\* indices, and either fail with -EAGAIN (lock released) or start copying.
WEnter(t, pkt, lock) ==
    /\ w[t].pc = "idle"
    /\ nwrites < MaxWrites
    /\ lock => ring_lock = 0
    /\ LET kv == pkt.kv
           total == TotalBytesToWrite(kv)
           avail == hv_get_ringbuffer_availbytes(read_index, write_index)
           base == [WriterIdle EXCEPT !.pkt = pkt, !.seq = nwrites + 1, !.kv = kv, !.lock = lock, !.total = total,
                       !.availw = avail.write,
                       !.g_availw = ring_datasize
                            - ((write_index - read_index + ring_datasize) % ring_datasize),
                       !.g_empty = (read_index = write_index),
                       !.g_m0 = (interrupt_mask = 0),
                       !.g_m1 = (interrupt_mask # 0)]
       IN  IF RingFull(avail.write, total)
           THEN /\ w' = [w EXCEPT ![t] = [base EXCEPT !.pc = "ret", !.ret = -EAGAIN]]
                /\ UNCHANGED ring_lock
           ELSE /\ w' = [w EXCEPT ![t] = [base EXCEPT !.pc = "copy",
                                             !.next = write_index,
                                             !.old = write_index, !.i = 1]]
                /\ ring_lock' = IF lock THEN t ELSE ring_lock
    /\ nwrites' = nwrites + 1
    /\ UNCHANGED <<read_index, write_index, interrupt_mask, pending_send_sz,
                   feature_bits, buffer, c, sig_pending, inflight, ring_info>>

\* The copy loop with write_index advanced after every segment.
WCopy_publishing(t) ==
    /\ w[t].pc = "copy"
    /\ LET r == hv_copyto_ringbuffer(buffer, w[t].next, w[t].kv[w[t].i])
       IN  /\ buffer' = r.buffer
           /\ write_index' = r.next
           /\ w' = [w EXCEPT ![t].next = r.next, ![t].i = w[t].i + 1,
                             ![t].pc = IF w[t].i = Len(w[t].kv)
                                       THEN "backlink" ELSE "copy"]
    /\ UNCHANGED <<read_index, interrupt_mask, pending_send_sz,
                   feature_bits, ring_lock, c, sig_pending, inflight, nwrites, ring_info>>

\* One iteration of the loop over kv_list: copy segment i into the ring.
WCopy(t) ==
    /\ w[t].pc = "copy"
    /\ LET r == hv_copyto_ringbuffer(buffer, w[t].next, w[t].kv[w[t].i])
       IN  /\ buffer' = r.buffer
           /\ w' = [w EXCEPT ![t].next = r.next, ![t].i = w[t].i + 1,
                             ![t].pc = IF w[t].i = Len(w[t].kv)
                                       THEN "backlink" ELSE "copy"]
    /\ UNCHANGED <<read_index, write_index, interrupt_mask, pending_send_sz,
                   feature_bits, ring_lock, c, sig_pending, inflight, nwrites, ring_info>>

\* "Set previous packet start": copy prev_indices after the segments.
WBacklink(t) ==
    /\ w[t].pc = "backlink"
    /\ LET r == hv_copyto_ringbuffer(buffer, w[t].next,
                                     hv_get_ring_bufferindices(write_index))
       IN  /\ buffer' = r.buffer
           /\ w' = [w EXCEPT ![t].next = r.next, ![t].pc = "publish"]
    /\ UNCHANGED <<read_index, write_index, interrupt_mask, pending_send_sz,
                   feature_bits, ring_lock, c, sig_pending, inflight, nwrites, ring_info>>

\* mb(); hv_set_next_write_location; release the lock.
WPublish(t) ==
    /\ w[t].pc = "publish"
    /\ write_index' = w[t].next
    /\ ring_lock' = IF w[t].lock THEN 0 ELSE ring_lock
    /\ inflight' = Append(inflight, Entry(w[t].pkt, w[t].seq))
    /\ w' = [w EXCEPT ![t].pc = "sigmask"]
    /\ UNCHANGED <<read_index, interrupt_mask, pending_send_sz, feature_bits,
                   buffer, c, sig_pending, nwrites, ring_info>>

\* hv_need_to_signal: mb(); read interrupt_mask.
WSigMask(t) ==
    /\ w[t].pc = "sigmask"
    /\ w' = [w EXCEPT ![t].mask = interrupt_mask,
                      ![t].pc = IF interrupt_mask # 0 THEN "ret" ELSE "sigread",
                      ![t].g_unread = Len(inflight),
                      ![t].signal = IF interrupt_mask # 0
                                    THEN hv_need_to_signal(w[t].old, interrupt_mask,
                                                           read_index)
                                    ELSE FALSE]
    /\ UNCHANGED <<shared, c, sig_pending, inflight, nwrites, ring_info>>

\* hv_need_to_signal: rmb(); read read_index and compare it with old_write.
WSigRead(t) ==
    /\ w[t].pc = "sigread"
    /\ w' = [w EXCEPT ![t].pc = "ret",
                      ![t].g_unread = Len(inflight),
                      ![t].signal = hv_need_to_signal(w[t].old, w[t].mask, read_index)]
    /\ UNCHANGED <<shared, c, sig_pending, inflight, nwrites, ring_info>>

\* hv_ringbuffer_write returns; its caller signals the consumer when *signal
\* is set (vmbus_setevent in the channel layer).
WReturn(t) ==
    /\ w[t].pc = "ret"
    /\ sig_pending' = (sig_pending \/ (w[t].ret = 0 /\ w[t].signal))
    /\ w' = [w EXCEPT ![t] = WriterIdle]
    /\ UNCHANGED <<shared, c, inflight, nwrites, ring_info>>


(*------------------------------ read path -------------------------------*)

\* u32 values are kept as the 32-bit two's complement number with the same
\* bits, so that 2^32 - d is held as -d; this is the unsigned comparison a < b.
U32Less(a, b) == IF (a < 0) = (b < 0) THEN a < b ELSE b < 0

\* The descriptor test with "no bytes at all" for "fewer than a descriptor".
NoDescriptor_empty(bytes_avail_toread) == bytes_avail_toread <= 0

\* "bytes_avail_toread < sizeof(desc)": make sure there is something to read.
NoDescriptor(bytes_avail_toread) == bytes_avail_toread < DescSize

\* The length test that leaves the offset out.
NotAllWritten_payloadonly(bytes_avail_toread, packetlen, offset) ==
    U32Less(bytes_avail_toread, packetlen)

\* "bytes_avail_toread < packetlen + offset": the packet is not all there yet.
NotAllWritten(bytes_avail_toread, packetlen, offset) ==
    U32Less(bytes_avail_toread, packetlen + offset)

\* The buffer test with ">=" for ">".
BufferTooSmall_offbyone(packetlen, buflen) ==
    U32Less(buflen, packetlen) \/ buflen = packetlen

\* "packetlen > buflen": the caller's buffer cannot hold the packet.
BufferTooSmall(packetlen, buflen) == U32Less(buflen, packetlen)

\* hv_end_read returning the bytes available to write.
hv_end_read_swapped(read, write) == write

\* What hv_end_read returns of the two counts it computed.
hv_end_read(read, write) == read

ConsumerIdle ==
    [pc |-> "idle", buflen |-> 0, raw |-> FALSE, availr |-> 0, availw |-> 0,
     next |-> 0, offset |-> 0, packetlen |-> 0, buf |-> <<>>, actual_len |-> 0,
     requestid |-> ToBytes(0, 8), prev_indices |-> <<>>, ret |-> 0, signal |-> FALSE,
     endret |-> 0,
     g_got |-> FALSE, g_expect |-> NoPacket, g_aw_pre |-> 0, g_aw_post |-> 0,
     g_nobufs |-> NoPacket, g_endexp |-> 0, g_head |-> NoPacket, g_r0 |-> 0]

\* Bytes the ledger's packets occupy in the ring, trailing words included.
RECURSIVE LedgerBytes(_)
LedgerBytes(q) ==
    IF q = <<>> THEN 0 ELSE TotalBytesToWrite(Head(q).pkt.kv) + LedgerBytes(Tail(q))

\* The writers that are inside a write, with the ledger flag f set to v.
MarkWriters(f, v) ==
    [t \in Writers |-> IF w[t].pc \in WriterActive
                       THEN [w[t] EXCEPT ![f] = v] ELSE w[t]]

\* The consumer's channel callback is scheduled after a signal.
CWake ==
    /\ c.pc = "idle"
    /\ sig_pending
    /\ sig_pending' = FALSE
    /\ c' = [c EXCEPT !.pc = "begin"]
    /\ UNCHANGED <<shared, w, inflight, nwrites, ring_info>>

\* hv_begin_read: interrupt_mask = 1; mb().
BeginRead ==
    /\ c.pc = "begin"
    /\ interrupt_mask' = 1
    /\ c' = [c EXCEPT !.pc = "drain"]
    /\ w' = MarkWriters("g_m1", TRUE)
    /\ UNCHANGED <<read_index, write_index, pending_send_sz, feature_bits, buffer,
                   ring_lock, sig_pending, inflight, nwrites, ring_info>>

\* Entry of hv_ringbuffer_read: the buflen test, then the available bytes.
CReadEnter(buflen, raw) ==
    /\ c.pc = "drain"
    /\ LET avail == hv_get_ringbuffer_availbytes(read_index, write_index)
           base == [c EXCEPT !.buflen = buflen, !.raw = raw, !.g_r0 = read_index]
       IN  IF buflen <= 0
           THEN c' = [base EXCEPT !.pc = "rret", !.ret = -EINVAL]
           ELSE c' = [base EXCEPT
                        !.actual_len = 0, !.requestid = ToBytes(0, 8),
                        !.availr = avail.read, !.availw = avail.write,
                        !.g_aw_pre = ring_datasize - LedgerBytes(inflight),
                        !.pc = IF NoDescriptor(avail.read) THEN "rret" ELSE "desc"]
    /\ UNCHANGED <<shared, w, sig_pending, inflight, nwrites, ring_info>>

\* Copy the descriptor out, decode it, and make the two length tests.
CReadDesc ==
    /\ c.pc = "desc"
    /\ LET d == hv_copyfrom_ringbuffer(buffer, DescSize,
                                       read_index)
           offset == IF c.raw THEN 0 ELSE DescOffset8(d.dest) * 8
           \* u32 subtraction; below zero it stands for 2^32 minus the excess
           packetlen == DescLen8(d.dest) * 8 - offset
           base == [c EXCEPT !.offset = offset, !.packetlen = packetlen,
                             !.actual_len = packetlen,
                             !.requestid = DescTransId(d.dest),
                             !.g_head = IF inflight = <<>> THEN NoPacket
                                        ELSE Head(inflight).pkt]
       IN  IF NotAllWritten(c.availr, packetlen, offset)
           THEN c' = [base EXCEPT !.pc = "rret", !.ret = -EAGAIN]
           ELSE IF BufferTooSmall(packetlen, c.buflen)
           THEN c' = [base EXCEPT !.pc = "rret", !.ret = -ENOBUFS,
                          !.g_nobufs = base.g_head]
           ELSE c' = [base EXCEPT !.pc = "payload",
                          !.next = hv_get_next_readlocation_withoffset(read_index,
                                                                       offset)]
    /\ UNCHANGED <<shared, w, sig_pending, inflight, nwrites, ring_info>>

\* The payload copy with read_index advanced before the back-link is read.
CReadPayload_publishing ==
    /\ c.pc = "payload"
    /\ LET r == hv_copyfrom_ringbuffer(buffer, c.packetlen, c.next)
       IN  /\ c' = [c EXCEPT !.buf = r.dest, !.next = r.next, !.pc = "backlink"]
           /\ read_index' = r.next
    /\ UNCHANGED <<write_index, interrupt_mask, pending_send_sz, feature_bits,
                   buffer, ring_lock, w, sig_pending, inflight, nwrites, ring_info>>

\* Copy packetlen bytes into the caller's buffer.
CReadPayload ==
    /\ c.pc = "payload"
    /\ LET r == hv_copyfrom_ringbuffer(buffer, c.packetlen, c.next)
       IN  c' = [c EXCEPT !.buf = r.dest, !.next = r.next, !.pc = "backlink"]
    /\ UNCHANGED <<shared, w, sig_pending, inflight, nwrites, ring_info>>

\* Copy the trailing u64 into prev_indices.
CReadBacklink ==
    /\ c.pc = "backlink"
    /\ LET r == hv_copyfrom_ringbuffer(buffer, LinkSize, c.next)
       IN  c' = [c EXCEPT !.prev_indices = r.dest, !.next = r.next,
                          !.pc = "publish"]
    /\ UNCHANGED <<shared, w, sig_pending, inflight, nwrites, ring_info>>

\* mb(); hv_set_next_read_location.  The ledger gives up its oldest packet.
CReadPublish ==
    /\ c.pc = "publish"
    /\ read_index' = c.next
    /\ inflight' = IF inflight = <<>> THEN inflight ELSE Tail(inflight)
    /\ c' = [c EXCEPT !.pc = "sig", !.g_got = TRUE,
                      !.g_expect = IF inflight = <<>> THEN NoPacket
                                   ELSE Head(inflight).pkt]
    /\ UNCHANGED <<write_index, interrupt_mask, pending_send_sz, feature_bits,
                   buffer, ring_lock, w, sig_pending, nwrites, ring_info>>

\* hv_need_to_signal_on_read with the bytes_avail_towrite read at entry.
CReadSig ==
    /\ c.pc = "sig"
    /\ c' = [c EXCEPT !.pc = "rret",
                      !.signal = hv_need_to_signal_on_read(c.availw, write_index,
                                                           read_index,
                                                           pending_send_sz),
                      !.g_aw_post = ring_datasize - LedgerBytes(inflight)]
    /\ UNCHANGED <<shared, w, sig_pending, inflight, nwrites, ring_info>>

\* hv_ringbuffer_read returns.  The drain loop reads again unless the call
\* found nothing (ret = 0 and *buffer_actual_len = 0).
CReadReturn ==
    /\ c.pc = "rret"
    /\ c' = [ConsumerIdle EXCEPT
                !.pc = IF c.ret = 0 /\ c.actual_len = 0 THEN "end" ELSE "drain",
                !.g_nobufs = IF c.g_got THEN NoPacket ELSE c.g_nobufs]
    /\ UNCHANGED <<shared, w, sig_pending, inflight, nwrites, ring_info>>

\* hv_end_read that also clears pending_send_sz.
EndReadClear_pending ==
    /\ c.pc = "end"
    /\ interrupt_mask' = 0
    /\ pending_send_sz' = 0
    /\ c' = [c EXCEPT !.pc = "endavail"]
    /\ w' = MarkWriters("g_m0", TRUE)
    /\ UNCHANGED <<read_index, write_index, feature_bits, buffer,
                   ring_lock, sig_pending, inflight, nwrites, ring_info>>

\* hv_end_read: interrupt_mask = 0; mb().
EndReadClear ==
    /\ c.pc = "end"
    /\ interrupt_mask' = 0
    /\ c' = [c EXCEPT !.pc = "endavail"]
    /\ w' = MarkWriters("g_m0", TRUE)
    /\ UNCHANGED <<read_index, write_index, pending_send_sz, feature_bits, buffer,
                   ring_lock, sig_pending, inflight, nwrites, ring_info>>

\* hv_end_read: read the indices again and return the bytes available to read.
EndReadAvail ==
    /\ c.pc = "endavail"
    /\ LET avail == hv_get_ringbuffer_availbytes(read_index, write_index)
       IN  c' = [c EXCEPT !.pc = "endret",
                          !.endret = hv_end_read(avail.read, avail.write),
                          !.g_endexp = LedgerBytes(inflight)]
    /\ UNCHANGED <<shared, w, sig_pending, inflight, nwrites, ring_info>>

\* The caller of hv_end_read drains again when it returned non-zero, and
\* otherwise leaves the callback until the next signal.
CEndReturn ==
    /\ c.pc = "endret"
    /\ c' = [ConsumerIdle EXCEPT !.pc = IF c.endret # 0 THEN "begin" ELSE "idle",
                                 !.g_nobufs = c.g_nobufs]
    /\ UNCHANGED <<shared, w, sig_pending, inflight, nwrites, ring_info>>

(*------------------------------ the system ------------------------------*)

\* Transaction ids and packets the producer side sends: a descriptor alone,
\* and a descriptor with five payload bytes padded to a multiple of eight.
PktA == [kv |-> <<DescBytes(6, 2, 2, 0, 513)>>, hdr |-> DescSize, tid |-> 513]

PktB == [kv |-> <<DescBytes(6, 2, 3, 0, 7), <<171, 205, 239, 1, 35>>, <<0, 0, 0>>>>,
         hdr |-> DescSize, tid |-> 7]

Packets == {PktA, PktB}

\* Capacities the consumer offers to hv_ringbuffer_read.
BufLens == {0, 8, 32}

\* Values the producer side may have left in pending_send_sz.
PendingSizes == {0, 32}

\* hv_ringbuffer_init on a zero-filled region of ring_datasize data bytes.
hv_ringbuffer_init ==
    /\ read_index = 0
    /\ write_index = 0
    /\ feature_bits = FeatPendingSendSz
    /\ interrupt_mask = 0
    /\ buffer = [k \in 0..(ring_datasize - 1) |-> 0]
    /\ ring_lock = 0

\* ring_info after hv_ringbuffer_init has returned 0 for a region of a header
\* page and ring_datasize data bytes.
RingInfoReady ==
    [called |-> TRUE, ret |-> 0, buflen |-> PageSize + ring_datasize,
     hdrsize |-> PageSize, ring_size |-> PageSize + ring_datasize,
     ring_datasize |-> ring_datasize, pre |-> <<0, 0, 0>>]

Init ==
    /\ hv_ringbuffer_init
    /\ ring_info = RingInfoReady
    /\ pending_send_sz \in PendingSizes
    /\ w = [t \in Writers |-> WriterIdle]
    /\ c = ConsumerIdle
    /\ sig_pending = FALSE
    /\ inflight = <<>>
    /\ nwrites = 0

Next ==
    \/ \E pkt \in Packets, lock \in BOOLEAN : WEnter(1, pkt, lock)
    \/ WCopy(1)
    \/ WBacklink(1)
    \/ WPublish(1)
    \/ WSigMask(1)
    \/ WSigRead(1)
    \/ WReturn(1)
    \/ CWake
    \/ BeginRead
    \/ \E buflen \in BufLens, raw \in BOOLEAN : CReadEnter(buflen, raw)
    \/ CReadDesc
    \/ CReadPayload
    \/ CReadBacklink
    \/ CReadPublish
    \/ CReadSig
    \/ CReadReturn
    \/ EndReadClear
    \/ EndReadAvail
    \/ CEndReturn

Spec == Init /\ [][Next]_vars

\* The same system with a producer that also hands over a segment list whose
\* length is no multiple of eight and disagrees with its descriptor (PktC is
\* PktB with the last padding byte missing), and that always passes lock = true.
PktC == [kv |-> <<DescBytes(6, 2, 3, 0, 9), <<171, 205, 239, 1, 35>>, <<0, 0>>>>,
         hdr |-> DescSize, tid |-> 9]

AnyPackets == Packets \cup {PktC}

NextAny ==
    \/ \E pkt \in AnyPackets : WEnter(1, pkt, TRUE)
    \/ WCopy(1)
    \/ WBacklink(1)
    \/ WPublish(1)
    \/ WSigMask(1)
    \/ WSigRead(1)
    \/ WReturn(1)
    \/ CWake
    \/ BeginRead
    \/ \E buflen \in BufLens, raw \in BOOLEAN : CReadEnter(buflen, raw)
    \/ CReadDesc
    \/ CReadPayload
    \/ CReadBacklink
    \/ CReadPublish
    \/ CReadSig
    \/ CReadReturn
    \/ EndReadClear
    \/ EndReadAvail
    \/ CEndReturn

SpecAny == Init /\ [][NextAny]_vars

\* The ring as earlier traffic left it: empty, with both indices at any
\* position p of the data region, and one call of hv_ringbuffer_write to go.
InitSeeded ==
    /\ \E p \in 0..(ring_datasize - 1) : read_index = p /\ write_index = p
    /\ feature_bits = FeatPendingSendSz
    /\ interrupt_mask = 0
    /\ buffer = [k \in 0..(ring_datasize - 1) |-> 0]
    /\ ring_lock = 0
    /\ pending_send_sz \in PendingSizes
    /\ w = [t \in Writers |-> WriterIdle]
    /\ c = ConsumerIdle
    /\ sig_pending = FALSE
    /\ inflight = <<>>
    /\ ring_info = RingInfoReady
    /\ nwrites = MaxWrites - 1

SpecSeeded == InitSeeded /\ [][Next]_vars

\* A region and a ring_info before hv_ringbuffer_init: whatever an earlier
\* user left in the header fields.
StaleIndices == {0, 8, 40}

InitBefore ==
    /\ read_index \in StaleIndices
    /\ write_index \in StaleIndices
    /\ feature_bits \in {0, FeatPendingSendSz}
    /\ interrupt_mask = 0
    /\ pending_send_sz \in PendingSizes
    /\ buffer = [k \in 0..(ring_datasize - 1) |-> 0]
    /\ ring_lock = 0
    /\ w = [t \in Writers |-> WriterIdle]
    /\ c = ConsumerIdle
    /\ sig_pending = FALSE
    /\ inflight = <<>>
    /\ nwrites = 0
    /\ ring_info = [called |-> FALSE, ret |-> 0, buflen |-> 0, hdrsize |-> 0,
                    ring_size |-> 0, ring_datasize |-> 0, pre |-> <<0, 0, 0>>]

\* Lengths handed to hv_ringbuffer_init: nothing, less than the header, the
\* header alone, the header and the modelled data region, and two more pages.
InitLens == {0, DescSize, PageSize, PageSize + ring_datasize, 3 * PageSize}

\* sizeof(struct hv_ring_buffer) in the build: a page, or not.
HeaderSizes == {PageSize, PageSize - LinkSize}

\* hv_ringbuffer_init that leaves feature_bits alone.
RingbufferInit_nofeature(buflen, hdrsize) ==
    /\ ~ring_info.called
    /\ IF hdrsize # PageSize
       THEN /\ ring_info' = [ring_info EXCEPT !.called = TRUE, !.ret = -EINVAL,
                                !.buflen = buflen, !.hdrsize = hdrsize,
                                !.pre = <<read_index, write_index, feature_bits>>]
            /\ UNCHANGED <<read_index, write_index, feature_bits>>
       ELSE /\ read_index' = 0
            /\ write_index' = 0
            /\ UNCHANGED feature_bits
            /\ ring_info' = [called |-> TRUE, ret |-> 0, buflen |-> buflen,
                             hdrsize |-> hdrsize, ring_size |-> buflen,
                             ring_datasize |-> buflen - hdrsize,
                             pre |-> <<read_index, write_index, feature_bits>>]
    /\ UNCHANGED <<interrupt_mask, pending_send_sz, buffer, ring_lock, w, c,
                   sig_pending, inflight, nwrites>>

\* A call of hv_ringbuffer_init(ring_info, buffer, buflen) in a build where
\* sizeof(struct hv_ring_buffer) is hdrsize.  ring_datasize is the u32
\* difference, kept as the two's complement number when buflen is smaller.
RingbufferInit(buflen, hdrsize) ==
    /\ ~ring_info.called
    /\ IF hdrsize # PageSize
       THEN /\ ring_info' = [ring_info EXCEPT !.called = TRUE, !.ret = -EINVAL,
                                !.buflen = buflen, !.hdrsize = hdrsize,
                                !.pre = <<read_index, write_index, feature_bits>>]
            /\ UNCHANGED <<read_index, write_index, feature_bits>>
       ELSE /\ read_index' = 0
            /\ write_index' = 0
            /\ feature_bits' = FeatPendingSendSz
            /\ ring_info' = [called |-> TRUE, ret |-> 0, buflen |-> buflen,
                             hdrsize |-> hdrsize, ring_size |-> buflen,
                             ring_datasize |-> buflen - hdrsize,
                             pre |-> <<read_index, write_index, feature_bits>>]
    /\ UNCHANGED <<interrupt_mask, pending_send_sz, buffer, ring_lock, w, c,
                   sig_pending, inflight, nwrites>>

NextInit == \E buflen \in InitLens, hdrsize \in HeaderSizes : RingbufferInit(buflen, hdrsize)

SpecInit == InitBefore /\ [][NextInit]_vars

\* Two local threads call hv_ringbuffer_write with lock = true on an empty
\* ring whose indices are at any position; no consumer runs, and two calls
\* are made in all.
InitLocked ==
    /\ \E p \in 0..(ring_datasize - 1) : read_index = p /\ write_index = p
    /\ feature_bits = FeatPendingSendSz
    /\ interrupt_mask = 0
    /\ buffer = [k \in 0..(ring_datasize - 1) |-> 0]
    /\ ring_lock = 0
    /\ pending_send_sz \in PendingSizes
    /\ w = [t \in Writers |-> WriterIdle]
    /\ c = ConsumerIdle
    /\ sig_pending = FALSE
    /\ inflight = <<>>
    /\ ring_info = RingInfoReady
    /\ nwrites = MaxWrites - 2

NextLocked ==
    \/ \E t \in Writers, pkt \in Packets : WEnter(t, pkt, TRUE)
    \/ \E t \in Writers : WCopy(t)
    \/ \E t \in Writers : WBacklink(t)
    \/ \E t \in Writers : WPublish(t)
    \/ \E t \in Writers : WSigMask(t)
    \/ \E t \in Writers : WSigRead(t)
    \/ \E t \in Writers : WReturn(t)

SpecLocked == InitLocked /\ [][NextLocked]_vars

\* The same system with a producer that breaks the caller contract: PktShort
\* is four bytes with no descriptor, and the descriptor of PktLong announces
\* 40 bytes where the segments have 16.
PktShort == [kv |-> <<<<1, 2, 3, 4>>>>, hdr |-> 0, tid |-> 0]

PktLong == [kv |-> <<DescBytes(6, 2, 5, 0, 11)>>, hdr |-> DescSize, tid |-> 11]

BadPackets == {PktA, PktShort, PktLong}

NextBad ==
    \/ \E pkt \in BadPackets, lock \in BOOLEAN : WEnter(1, pkt, lock)
    \/ WCopy(1)
    \/ WBacklink(1)
    \/ WPublish(1)
    \/ WSigMask(1)
    \/ WSigRead(1)
    \/ WReturn(1)
    \/ CWake
    \/ BeginRead
    \/ \E buflen \in BufLens, raw \in BOOLEAN : CReadEnter(buflen, raw)
    \/ CReadDesc
    \/ CReadPayload
    \/ CReadBacklink
    \/ CReadPublish
    \/ CReadSig
    \/ CReadReturn
    \/ EndReadClear
    \/ EndReadAvail
    \/ CEndReturn

SpecBad == Init /\ [][NextBad]_vars

(*------------------------------ properties ------------------------------*)

\* The bytes a read of packet pkt must hand to its caller: all the segments in
\* raw mode, and the segments after the announced header otherwise.
ExpectedBytes(pkt, raw) ==
    LET all == Flatten(pkt.kv)
    IN  IF raw THEN all ELSE SubSeq(all, pkt.hdr + 1, Len(all))

\* A write that has run hv_need_to_signal and is about to return 0.
WriteDone(t) == w[t].pc = "ret" /\ w[t].ret = 0

\* A read that consumed a packet and is about to return.
ReadDone == c.pc = "rret" /\ c.g_got

\* The packets of the ledger whose write has returned to its caller.
ReturnedUnread ==
    {k \in 1..Len(inflight) :
        \A t \in Writers :
            ~(/\ w[t].pc \in {"sigmask", "sigread", "ret"}
              /\ w[t].seq = inflight[k].seq)}

C2_NoLostWakeup ==
    (c.pc = "idle" /\ ~sig_pending) => ReturnedUnread = {}

\* The consumer went idle while a write was in progress under the mask; the
\* write has published its packet and is about to return needs_signal = true.
C2_Witness ==
    /\ c.pc = "idle"
    /\ ~sig_pending
    /\ inflight # <<>>
    /\ WriteDone(1)
    /\ w[1].signal
    /\ w[1].g_m1

\* C3: a write fails with -EAGAIN exactly when the bytes available to write
\* are no more than the segments' length plus eight, and the failing call
\* leaves write_index and the data region as they were.
C3_RingFullRule ==
    /\ [](\A t \in Writers :
            w[t].pc = "ret" =>
               /\ w[t].ret \in {0, -EAGAIN}
               /\ (w[t].ret = -EAGAIN)
                     <=> (w[t].g_availw <= Len(Flatten(w[t].kv)) + 8))
    /\ [][\A t \in Writers :
            (w[t].pc = "idle" /\ w'[t].pc = "ret")
               => (w'[t].ret = -EAGAIN /\ write_index' = write_index
                      /\ buffer' = buffer)]_vars

\* A packet of exactly the available size has been rejected.
C3_Witness ==
    /\ w[1].pc = "ret"
    /\ w[1].ret = -EAGAIN
    /\ w[1].pkt = PktB
    /\ w[1].g_availw = Len(Flatten(PktB.kv)) + 8

\* C3, the accepted side: the same packet one byte shorter has gone in.
C3_AcceptedOneLess ==
    /\ WriteDone(1)
    /\ w[1].pkt = PktC
    /\ w[1].g_availw = Len(Flatten(PktC.kv)) + 8 + 1

\* C4: both indices stay inside the data region.
C4_IndexRange ==
    /\ read_index \in 0..(ring_datasize - 1)
    /\ write_index \in 0..(ring_datasize - 1)

\* A packet has been written across the end of the data region and another
\* has been read across it.
C4_Witness ==
    /\ WriteDone(1)
    /\ write_index > 0
    /\ write_index < w[1].old
    /\ read_index > write_index

\* C5: a successful write into a ring that was empty when the write began,
\* with interrupt_mask 0 from then until hv_need_to_signal has run, reports
\* needs_signal = true.
C5_EmptyUnmaskedSignals ==
    \A t \in Writers :
        (WriteDone(t) /\ w[t].g_empty /\ ~w[t].g_m1) => w[t].signal

\* Such a write, not the first one, has reported true.
C5_Witness ==
    /\ WriteDone(1)
    /\ w[1].g_empty
    /\ ~w[1].g_m1
    /\ w[1].signal
    /\ w[1].old > 0

\* C6 as stated: a successful write into a ring that held unread data when
\* the write began reports needs_signal = false.
C6_AsStated ==
    \A t \in Writers : (WriteDone(t) /\ ~w[t].g_empty) => ~w[t].signal

\* C6 amended: a successful write reports needs_signal = false when an older
\* packet is still unread at the moment hv_need_to_signal reads read_index,
\* and true when by then exactly the older packets have been consumed and
\* the interrupt_mask it read was 0.
C6_OlderUnreadNoSignal ==
    \A t \in Writers :
        /\ (WriteDone(t) /\ w[t].g_unread > 1) => ~w[t].signal
        /\ (WriteDone(t) /\ w[t].g_unread = 1 /\ w[t].mask = 0) => w[t].signal

\* A write into a non-empty, unmasked ring has reported false.
C6_Witness ==
    /\ WriteDone(1)
    /\ ~w[1].g_empty
    /\ w[1].g_unread > 1
    /\ ~w[1].g_m1
    /\ ~w[1].signal

\* C7: a successful write during which interrupt_mask was set all the time
\* reports needs_signal = false.
C7_MaskedNoSignal ==
    \A t \in Writers : (WriteDone(t) /\ ~w[t].g_m0) => ~w[t].signal

\* Such a write went into an empty ring, and read_index still equals the
\* write index before the write.
C7_Witness ==
    /\ WriteDone(1)
    /\ ~w[1].g_m0
    /\ w[1].g_empty
    /\ read_index = w[1].old
    /\ ~w[1].signal

\* C8: a read that consumed a packet reports needs_signal = true exactly when
\* pending_send_sz is non-zero, the bytes available to write were below it
\* before the read and are at or above it after; a read that consumed nothing
\* reports nothing.
C8_FlowControlEdge ==
    /\ ReadDone =>
          (c.signal <=> /\ pending_send_sz # 0
                        /\ c.g_aw_pre < pending_send_sz
                        /\ c.g_aw_post >= pending_send_sz)
    /\ (c.pc = "rret" /\ ~c.g_got) => ~c.signal

\* A read has crossed the threshold and reported true.
C8_Witness ==
    /\ ReadDone
    /\ c.signal
    /\ pending_send_sz > 0
    /\ c.g_aw_pre < pending_send_sz
    /\ c.g_aw_post >= pending_send_sz

\* C9: a read of a pending packet fails with -ENOBUFS exactly when buflen is
\* smaller than the packet's payload; the failing read leaves read_index and
\* the pending packet where they were and its steps change neither index nor
\* the data region; the next read that consumes a packet returns that packet.
C9_BufferTooSmallRetry ==
    /\ [](/\ (c.pc = "rret" /\ c.g_head # NoPacket) =>
                ((c.ret = -ENOBUFS)
                    <=> (c.buflen < Len(ExpectedBytes(c.g_head, c.raw))))
          /\ (c.pc = "rret" /\ c.ret = -ENOBUFS) =>
                /\ ~c.g_got
                /\ read_index = c.g_r0
                /\ inflight # <<>>
                /\ Head(inflight).pkt = c.g_nobufs
          /\ (ReadDone /\ c.g_nobufs # NoPacket) =>
                /\ c.g_expect = c.g_nobufs
                /\ c.buf = ExpectedBytes(c.g_nobufs, c.raw)
                /\ c.requestid = ToBytes(c.g_nobufs.tid, 8))
    /\ [][(c'.pc = "rret" /\ c.pc # "rret" /\ c'.ret = -ENOBUFS)
             => (read_index' = read_index /\ write_index' = write_index
                    /\ buffer' = buffer)]_vars

\* A read has returned the packet an earlier read found too large.
C9_Witness ==
    /\ ReadDone
    /\ c.g_nobufs = PktB
    /\ c.g_expect = PktB
    /\ c.raw

\* C10: hv_end_read returns the size of the packets published and not yet
\* read at the moment it reads the indices, and leaves interrupt_mask 0.
C10_EndReadSeesWrite ==
    c.pc = "endret" => (c.endret = c.g_endexp /\ interrupt_mask = 0)

\* A write ran wholly under the mask and reported false; hv_end_read then
\* returned non-zero.
C10_Witness ==
    /\ c.pc = "endret"
    /\ c.endret > 0
    /\ WriteDone(1)
    /\ ~w[1].g_m0
    /\ ~w[1].signal

\* C11 as stated: from an empty ring at any position, a write followed by a
\* read returns a length equal to the total length of the segments and the
\* transaction id of the packet.
C11_AsStated ==
    ReadDone =>
        /\ c.actual_len = SumLen(c.g_expect.kv)
        /\ c.requestid = ToBytes(c.g_expect.tid, 8)

\* C11 amended: from an empty ring at any position p, a write followed by a
\* read returns 0 with the transaction id of the descriptor, with a length
\* equal to the total length of the segments in raw mode and to that length
\* less the offset8*8 header bytes otherwise, and with exactly those bytes.
C11_RoundTripWrap ==
    ReadDone =>
        /\ c.g_expect # NoPacket
        /\ c.ret = 0
        /\ c.actual_len = IF c.raw THEN SumLen(c.g_expect.kv)
                          ELSE SumLen(c.g_expect.kv) - c.g_expect.hdr
        /\ c.requestid = ToBytes(c.g_expect.tid, 8)
        /\ c.buf = ExpectedBytes(c.g_expect, c.raw)
        /\ read_index = write_index

\* A raw read has returned a packet whose descriptor wrapped past the end of
\* the data region.
C11_Witness ==
    /\ ReadDone
    /\ c.raw
    /\ c.g_expect = PktB
    /\ c.g_r0 > ring_datasize - DescSize
    /\ c.actual_len = SumLen(PktB.kv)

\* C12: a step of hv_ringbuffer_write or of hv_need_to_signal, in a call
\* that succeeds or fails, changes none of read_index, interrupt_mask and
\* pending_send_sz; a step of hv_ringbuffer_read or of
\* hv_need_to_signal_on_read changes none of write_index, interrupt_mask and
\* pending_send_sz; a step of hv_begin_read or hv_end_read changes no field of
\* the shared block but interrupt_mask.
C12_SingleWriterPerField ==
    [][/\ (\E t \in Writers : w'[t].pc # w[t].pc \/ w'[t].i # w[t].i)
            => /\ read_index' = read_index
               /\ interrupt_mask' = interrupt_mask
               /\ pending_send_sz' = pending_send_sz
       /\ (c.pc \in {"drain", "desc", "payload", "backlink", "publish", "sig", "rret"}
              /\ c' # c)
            => /\ write_index' = write_index
               /\ interrupt_mask' = interrupt_mask
               /\ pending_send_sz' = pending_send_sz
       /\ (c.pc \in {"begin", "end", "endavail"} /\ c' # c)
            => /\ read_index' = read_index
               /\ write_index' = write_index
               /\ pending_send_sz' = pending_send_sz
               /\ feature_bits' = feature_bits
               /\ buffer' = buffer]_vars

\* A write has failed with -EAGAIN after a packet was read, while
\* hv_end_read has cleared the mask and pending_send_sz is set.
C12_Witness ==
    /\ c.pc = "endavail"
    /\ w[1].pc = "ret"
    /\ w[1].ret = -EAGAIN
    /\ pending_send_sz # 0
    /\ read_index # 0

PacketInRegion(t) ==
    hv_copyfrom_ringbuffer(buffer, w[t].total, w[t].old).dest
        = Flatten(w[t].kv) \o hv_get_ring_bufferindices(w[t].old)

\* The distance from read_index to position pos, going round the ring.
FromReadIndex(pos) == (pos - read_index + ring_datasize) % ring_datasize

\* C14: write_index changes only in the publishing step of a write, from the
\* value the write found to that value advanced by the segments and the
\* back-link word, and only when all those bytes are in the data region; and
\* every copy a read makes lies within the bytes between read_index and
\* write_index, so the payload it has copied is that of a published packet.
C14_PublishAfterCopy ==
    /\ [][write_index' # write_index =>
             \E t \in Writers :
                /\ w[t].pc = "publish"
                /\ write_index = w[t].old
                /\ write_index' = (w[t].old + w[t].total) % ring_datasize
                /\ buffer' = buffer
                /\ PacketInRegion(t)]_vars
    /\ [](LET avail == FromReadIndex(write_index)
          IN  /\ c.pc = "desc" => DescSize <= avail
              /\ c.pc = "payload" => FromReadIndex(c.next) + c.packetlen <= avail
              /\ c.pc = "backlink" =>
                    /\ FromReadIndex(c.next) + LinkSize <= avail
                    /\ c.buf = ExpectedBytes(Head(inflight).pkt, c.raw))

\* A read is about to copy the back-link word that ends just where a
\* complete but unpublished packet begins.
C14_Witness ==
    /\ c.pc = "backlink"
    /\ w[1].pc = "publish"
    /\ (c.next + LinkSize) % ring_datasize = w[1].old
    /\ w[1].old # 0
    /\ PacketInRegion(1)

\* C15: read_index changes only in the publishing step of a read, after the
\* payload and the back-link word have been copied out, and moves past
\* exactly the packet read; a write that is copying has room for its bytes
\* in the free space as the indices now are; and every byte a step changes in
\* the data region lies in the range of a write that is copying, outside the
\* bytes between read_index and write_index.
C15_ConsumeBeforeOverwrite ==
    /\ [][read_index' # read_index =>
             /\ c.pc = "publish"
             /\ Len(c.buf) = c.packetlen
             /\ Len(c.prev_indices) = LinkSize
             /\ read_index' = (read_index + c.offset + c.packetlen + LinkSize)
                                  % ring_datasize]_vars
    /\ [](\A t \in Writers :
             w[t].pc \in {"copy", "backlink"} =>
                w[t].total < ring_datasize - FromReadIndex(write_index))
    /\ [][\A k \in 0..(ring_datasize - 1) :
             buffer'[k] # buffer[k] =>
                /\ FromReadIndex(k) >= FromReadIndex(write_index)
                /\ \E t \in Writers :
                      /\ w[t].pc \in {"copy", "backlink"}
                      /\ (k - w[t].old + ring_datasize) % ring_datasize
                             < w[t].total]_vars

\* A write is copying a packet that will leave eight bytes free, while the
\* read of the oldest packet has copied the payload and not yet the
\* back-link word.
C15_Witness ==
    /\ c.pc = "backlink"
    /\ w[1].pc = "backlink"
    /\ FromReadIndex(w[1].old) + w[1].total + LinkSize = ring_datasize
    /\ read_index # 0

\* Writer t is inside a write that has passed the ring-full test.
Accepted(t) == w[t].pc \in WriterActive \/ WriteDone(t)

\* The positions of the data region that the write of thread t copies into.
WriteRange(t) ==
    {(w[t].old + k) % ring_datasize : k \in 0..(w[t].total - 1)}

\* The bytes that writing the packets of ledger q one after the other, from
\* position pos on, leaves in the data region.
RECURSIVE SerialImage(_, _)
SerialImage(q, pos) ==
    IF q = <<>> THEN <<>>
    ELSE Flatten(Head(q).pkt.kv) \o hv_get_ring_bufferindices(pos)
            \o SerialImage(Tail(q),
                   (pos + TotalBytesToWrite(Head(q).pkt.kv)) % ring_datasize)

\* C16: with lock = true and two writer threads, at most one thread is
\* between taking and releasing the lock; the ranges two accepted writes
\* copy into do not overlap; a packet that has been published lies whole
\* in its range; the published bytes are those that the writes, run one
\* after the other in the order they published, would leave, and
\* write_index is the initial index advanced by the sum of their framed
\* sizes; and a write that returns, 0 or -EAGAIN, does not hold the lock.
C16_LockedWritersSerial ==
    /\ \A t \in Writers :
          /\ (ring_lock = t) <=> (w[t].pc \in {"copy", "backlink", "publish"})
          /\ w[t].pc \in {"sigmask", "sigread", "ret"} /\ w[t].ret = 0
                => PacketInRegion(t)
    /\ ring_lock \in Writers \cup {0}
    /\ \A t, u \in Writers :
          (t # u /\ Accepted(t) /\ Accepted(u))
             => WriteRange(t) \cap WriteRange(u) = {}
    /\ write_index = (read_index + LedgerBytes(inflight)) % ring_datasize
    /\ hv_copyfrom_ringbuffer(buffer, LedgerBytes(inflight), read_index).dest
          = SerialImage(inflight, read_index)

\* Both threads' writes have succeeded, thread 2 first, and the packet of
\* thread 1 wraps past the end of the data region.
C16_Witness ==
    /\ WriteDone(1)
    /\ WriteDone(2)
    /\ w[1].old = (w[2].old + w[2].total) % ring_datasize
    /\ write_index < w[1].old
    /\ write_index > 0
    /\ ring_lock = 0

\* C16, the ring-full return: thread 2 has been turned away with -EAGAIN
\* while thread 1, which published first, has not yet returned, and the
\* lock is free.
C16_FullReleased ==
    /\ w[2].pc = "ret"
    /\ w[2].ret = -EAGAIN
    /\ w[1].pc = "sigmask"
    /\ ring_lock = 0

\* C17: the packets written and not yet read never fill the data region:
\* they take at most ring_datasize - 1 bytes, the bytes available to write
\* by the indices are the rest and at least 1, and read_index equals
\* write_index only when no packet is unread.
C17_NeverFull ==
    LET avail == hv_get_ringbuffer_availbytes(read_index, write_index)
    IN  /\ LedgerBytes(inflight) <= ring_datasize - 1
        /\ avail.read = LedgerBytes(inflight)
        /\ avail.write = ring_datasize - LedgerBytes(inflight)
        /\ avail.write >= 1
        /\ read_index = write_index => inflight = <<>>

\* The ring is as full as packets of whole 8-byte units can make it, and a
\* further write has been turned away.
C17_Witness ==
    /\ hv_get_ringbuffer_availbytes(read_index, write_index).write <= LinkSize
    /\ inflight # <<>>
    /\ w[1].pc = "ret"
    /\ w[1].ret = -EAGAIN

\* C18: a call of hv_ringbuffer_read with buflen > 0, made when fewer bytes
\* than a descriptor lie between read_index and write_index, the empty ring
\* included, returns 0 with *buffer_actual_len = 0 and *requestid = 0 in one
\* step that changes neither index nor the data region.
C18_NothingToRead ==
    [][(/\ c.pc = "drain"
        /\ c'.pc # "drain"
        /\ c'.buflen > 0
        /\ FromReadIndex(write_index) < DescSize)
          => /\ c'.pc = "rret"
             /\ c'.ret = 0
             /\ c'.actual_len = 0
             /\ c'.requestid = ToBytes(0, 8)
             /\ ~c'.g_got
             /\ read_index' = read_index
             /\ write_index' = write_index
             /\ buffer' = buffer]_vars

\* A read has found four bytes and their back-link word, twelve bytes in
\* all, and is about to return 0 with nothing read.
C18_Witness ==
    /\ c.pc = "rret"
    /\ c.buflen > 0
    /\ c.ret = 0
    /\ c.actual_len = 0
    /\ c.availr = TotalBytesToWrite(PktShort.kv)
    /\ FromReadIndex(write_index) = c.availr
    /\ read_index = c.g_r0
    /\ read_index # 0

\* C19: the step of hv_ringbuffer_read that decodes the descriptor fails
\* with -EAGAIN exactly when len8 * 8 exceeds the bytes available to read
\* that the call computed, whatever buflen is, and then leaves read_index
\* where it was.
C19_TryAgainFirst ==
    [][(c.pc = "desc" /\ c'.pc # "desc") =>
          LET desc == hv_copyfrom_ringbuffer(buffer, DescSize, read_index).dest
          IN  /\ (c'.ret = -EAGAIN) <=> (DescLen8(desc) * 8 > c.availr)
              /\ c'.ret = -EAGAIN =>
                    /\ c'.pc = "rret"
                    /\ ~c'.g_got
                    /\ read_index' = read_index
                    /\ write_index' = write_index
                    /\ buffer' = buffer]_vars

\* A read has failed with -EAGAIN on a descriptor that announces 40 bytes
\* where 24 are available, with a buffer that is too small as well.
C19_Witness ==
    /\ c.pc = "rret"
    /\ c.ret = -EAGAIN
    /\ c.g_head = PktLong
    /\ c.availr = TotalBytesToWrite(PktLong.kv)
    /\ BufferTooSmall(c.packetlen, c.buflen)
    /\ read_index = c.g_r0

\* C20: the step that stores read_index advances it by len8 * 8 + 8 modulo
\* ring_datasize, len8 being that of the descriptor at read_index, in raw
\* and in non-raw mode; for a packet whose len8 * 8 is the length of its
\* segments this is what its write advanced write_index by; and whenever as
\* many packets have been read as have been published, read_index equals
\* write_index and no byte is available to read.
C20_ReadAdvance ==
    /\ [][read_index' # read_index =>
             LET desc == hv_copyfrom_ringbuffer(buffer, DescSize, read_index).dest
             IN  /\ read_index' = (read_index + DescLen8(desc) * 8 + LinkSize)
                                      % ring_datasize
                 /\ inflight # <<>>
                 /\ DescLen8(desc) * 8 = SumLen(Head(inflight).pkt.kv)
                 /\ read_index' = (read_index
                                     + TotalBytesToWrite(Head(inflight).pkt.kv))
                                      % ring_datasize]_vars
    /\ [](inflight = <<>> =>
             /\ read_index = write_index
             /\ hv_get_ringbuffer_availbytes(read_index, write_index).read = 0)

\* A non-raw read has just stored read_index, which has wrapped past the
\* end of the data region and now equals write_index, all packets written
\* having been read.
C20_Witness ==
    /\ c.pc = "sig"
    /\ ~c.raw
    /\ c.offset > 0
    /\ inflight = <<>>
    /\ nwrites = MaxWrites
    /\ read_index < c.g_r0
    /\ read_index = write_index

=============================================================================
